---- MODULE Spec2Model ----
(***************************************************************************)
(* One invocation of dota_2_rosh_timer.pyw: main() selects the offsets of  *)
(* the tracked metric (for item/ability through get_cooldowns and its      *)
(* on-disk cache), reads the in-game clock by screenshot + OCR under two   *)
(* nested retry counters, builds the timer sequence and copies it to the   *)
(* clipboard.  Every external call (filesystem, network, screen, OCR,      *)
(* clipboard) is appended to the log `io`.                                 *)
(***************************************************************************)
EXTENDS Integers, Sequences, FiniteSets, TLC

\* ---------------------------------------------------------------- bounds
MaxNow == 2          \* the clock reads MaxNow; stored expiries are MaxNow - 1..MaxNow + 1
MaxPatch == 2        \* upstream patches are numbered 1..MaxPatch
MaxSeconds == 3700   \* durations handed to the formatter alone: 0..MaxSeconds

\* ------------------------------------------------------ program constants
DAYS == 2            \* partial(make_update_timestamp, timestamp_filename, 2)
SCREENSHOT_LIMIT == 5    \* while next(screenshot_retries) < 5
OCR_LIMIT == 10          \* if next(ocr_retries) > 10
COLON == 10          \* the character ":" (digits are 0..9)

NONE == "None"         \* item_or_ability not given
NoPatch == 0           \* patch = None; also "no such file" for the cache file
NoMarker == [exists |-> FALSE, timestamp |-> 0, patch |-> NoPatch]

\* ToTrack enum
ROSHAN == "roshan"
GLYPH == "glyph"
BUYBACK == "buyback"
ITEM == "item"
ABILITY == "ability"
ToTrack == {ROSHAN, GLYPH, BUYBACK, ITEM, ABILITY}

\* TimersSep enum
ARROW == "ARROW"
PIPE == "PIPE"

\* ToTrack.plural
plural(kind) == IF kind = ITEM THEN "items" ELSE "abilities"

\* ToTrack.times, in seconds
KindTimes_swapped(kind) ==
    CASE kind = ROSHAN -> <<300, 180, 180>>
      [] kind = GLYPH -> <<480>>
      [] kind = BUYBACK -> <<300>>
KindTimes(kind) ==
    CASE kind = ROSHAN -> <<300, 180, 180>>
      [] kind = GLYPH -> <<300>>
      [] kind = BUYBACK -> <<480>>

Patches == 1..MaxPatch

\* Identifiers a user may pass on the command line.
Identifiers == {"black_king_bar", "faceless_void_chronosphere", "aegis", "nonexistent"}

\* The upstream document <constant_type>.json as published for patch p.
\* An entry is [hascd, scalar, cd]: "aegis" is present without a "cd" key,
\* black_king_bar has a scalar cooldown, chronosphere a per-level list.
\* NoPatch stands for the empty dict.
DataOf(constant_type, p) ==
    IF p = NoPatch THEN <<>>
    ELSE IF constant_type = "items"
    THEN [k \in {"black_king_bar", "aegis"} |->
            IF k = "aegis"
            THEN [hascd |-> FALSE, scalar |-> TRUE, cd |-> <<>>]
            ELSE [hascd |-> TRUE, scalar |-> TRUE, cd |-> <<90 - 5 * p>>]]
    ELSE [k \in {"faceless_void_chronosphere"} |->
            [hascd |-> TRUE, scalar |-> FALSE, cd |-> <<30 * p, 45 * p>>]]

\* a cooldown value: a scalar (cd has one element) or a list
NoCooldown == [scalar |-> TRUE, cd |-> <<>>]

\* ------------------------------------------------------------- OCR texts
\* What reader.readtext(image, detail=0, allowlist=digits+":") may return:
\* a list of strings over the allowlist; a string is a sequence of characters.
Texts == { <<5, 3, 0>>, <<5, COLON, 3, 0>>, <<1, 2>>, <<1, COLON, 7, 5>>,
           <<5, COLON, 0, 0>>, <<1, 0, COLON, 0, 0>> }
ReadResults == { <<>> } \cup { <<t>> : t \in Texts }
                  \cup { <<<<5, 3, 0>>, <<1, COLON, 7, 5>>>> }

VARIABLES
    to_track,          \* command line: the ToTrack member
    item_or_ability,   \* command line: identifier or NONE
    force_update,      \* command line: --force_update
    now,               \* datetime.now() of this invocation (days)
    latest,            \* the latest patch upstream
    tsFile,            \* <constant_type>_timestamp.json: NoMarker or [timestamp, patch]
    cacheFile,         \* <constant_type>_cache.json: the patch whose document it holds, or NoPatch
    tsFile0,           \* the marker file as it was when the invocation started
    cacheFile0,        \* the cache file as it was when the invocation started
    cwd,               \* process working directory: "home" or "cache"
    pc,                \* position in main / get_cooldowns
    err,               \* the exception that ended the invocation, or NONE
    io,                \* log of external calls [op, ok]
    data,              \* get_cooldowns: data, as the patch whose document it is (NoPatch: {})
    patch,             \* get_cooldowns: patch (NoPatch or a patch number)
    cooldown,          \* main: value returned by get_cooldowns
    times,             \* main: times
    timers_sep,        \* main: timers_sep
    sep_prefix,        \* main: sep_prefix (<<>> for None, or the labels)
    screenshot_retries, \* next value of itertools.count(1)
    ocr_retries,       \* next value of itertools.count(1)
    results,           \* every value readtext returned, in order
    timer,             \* main: timer
    clipboard          \* every value handed to pyperclip.copy, in order

vars == << to_track, item_or_ability, force_update, now, latest, tsFile, cacheFile,
           tsFile0, cacheFile0, cwd, pc, err, io, data, patch, cooldown, times,
           timers_sep, sep_prefix, screenshot_retries, ocr_retries, results,
           timer, clipboard >>

inputVars == << to_track, item_or_ability, force_update, now, latest, tsFile0, cacheFile0 >>
diskVars == << tsFile, cacheFile >>
gcVars == << data, patch >>
ocrVars == << screenshot_retries, ocr_retries, results, timer >>
mainVars == << cooldown, times, timers_sep, sep_prefix >>

\* ------------------------------------------------------------ log helpers
Op(name, ok) == [op |-> name, ok |-> ok, why |-> "-"]
\* a request that failed, with the exception urlopen raised
OpFailed(name, why) == [op |-> name, ok |-> FALSE, why |-> why]
Log(name, ok) == io' = Append(io, Op(name, ok))
Log2(a, b) == io' = io \o <<a, b>>
Count(name) == Cardinality({i \in 1..Len(io) : io[i].op = name})
Idx(name) == {i \in 1..Len(io) : io[i].op = name}
NetOps == {"get_manifest", "get_dataset"}
NetCount == Cardinality({i \in 1..Len(io) : io[i].op \in NetOps})

Markers == {NoMarker} \cup [exists : {TRUE}, timestamp : (MaxNow - 1)..(MaxNow + 1), patch : Patches]

Init ==
    /\ to_track \in ToTrack
    /\ item_or_ability \in {NONE} \cup Identifiers
    /\ force_update \in BOOLEAN
    /\ now = MaxNow
    /\ latest \in Patches
    \* the cache files matter to get_cooldowns only: the other kinds start
    \* from an empty or a complete cache directory
    /\ IF to_track \in {ITEM, ABILITY}
       THEN /\ tsFile \in Markers
            /\ cacheFile \in {NoPatch} \cup Patches
            \* both files were written under a patch that was the latest then
            /\ tsFile.patch <= latest
            /\ cacheFile <= latest
       ELSE /\ \/ tsFile = NoMarker /\ cacheFile = NoPatch
               \/ /\ tsFile = [exists |-> TRUE, timestamp |-> MaxNow + 1, patch |-> latest]
                  /\ cacheFile = latest
            \* the identifier is not looked at either: absent, or one that exists
            /\ item_or_ability \in {NONE, "black_king_bar"}
    /\ tsFile0 = tsFile
    /\ cacheFile0 = cacheFile
    /\ cwd = "home"
    /\ pc = "main"
    /\ err = NONE
    /\ io = <<>>
    /\ data = NoPatch
    /\ patch = NoPatch
    /\ cooldown = NoCooldown
    /\ times = <<>>
    /\ timers_sep = ARROW
    /\ sep_prefix = <<>>
    /\ screenshot_retries = 1
    /\ ocr_retries = 1
    /\ results = <<>>
    /\ timer = <<>>
    /\ clipboard = <<>>

\* raise: the exception propagates out of main, nothing after it runs
Raise_swallowed(kind) == /\ err' = kind
                         /\ pc' = "publish"
Raise(kind) == /\ err' = kind
               /\ pc' = "failed"

\* ------------------------------------------------------------------ main
\* line 276: sep_prefix = (_("kill"), _("exp"), _("min"), _("max"))
RoshanLabels_three == <<"exp", "min", "max">>
RoshanLabels == <<"kill", "exp", "min", "max">>

\* main, lines 272-279: fixed offsets, or the call of get_cooldowns
\* (whose wrapper, enter_subdir, first creates and enters the cache directory)
MainSelect_capture_first ==
    /\ pc = "main"
    /\ IF to_track \in {ROSHAN, GLYPH, BUYBACK}
       THEN /\ times' = KindTimes(to_track)
            /\ sep_prefix' = IF to_track = ROSHAN THEN RoshanLabels ELSE <<>>
            /\ pc' = "screenshot"
            /\ UNCHANGED <<io, cwd>>
       ELSE /\ io' = io \o <<Op("capture", TRUE), Op("mkdir", TRUE), Op("chdir", TRUE)>>
            /\ cwd' = "cache"
            /\ pc' = "gc_check"
            /\ UNCHANGED <<times, sep_prefix>>
    /\ UNCHANGED <<inputVars, diskVars, gcVars, ocrVars, err, cooldown,
                   timers_sep, clipboard>>
MainSelect ==
    /\ pc = "main"
    /\ IF to_track \in {ROSHAN, GLYPH, BUYBACK}
       THEN /\ times' = KindTimes(to_track)
            /\ sep_prefix' = IF to_track = ROSHAN THEN RoshanLabels ELSE <<>>
            /\ pc' = "screenshot"
            /\ UNCHANGED <<io, cwd>>
       ELSE /\ Log2(Op("mkdir", TRUE), Op("chdir", TRUE))
            /\ cwd' = "cache"
            /\ pc' = "gc_check"
            /\ UNCHANGED <<times, sep_prefix>>
    /\ UNCHANGED <<inputVars, diskVars, gcVars, ocrVars, err, cooldown,
                   timers_sep, clipboard>>

\* ---------------------------------------------------------- get_cooldowns
\* get_cooldowns, lines 160-171: the identifier is required
GcCheck_late ==
    /\ pc = "gc_check"
    /\ pc' = "gc_try"
    /\ UNCHANGED <<inputVars, diskVars, gcVars, ocrVars, mainVars, cwd, io, err, clipboard>>
GcCheck ==
    /\ pc = "gc_check"
    /\ IF item_or_ability = NONE
       THEN Raise("ValueError_missing_argument")
       ELSE pc' = "gc_try" /\ err' = err
    /\ UNCHANGED <<inputVars, diskVars, gcVars, ocrVars, mainVars, cwd, io, clipboard>>

\* line 177: datetime.now() > datetime.fromisoformat(timestamp["timestamp"])
Expired_inverted(t, stamp) == t < stamp
Expired(t, stamp) == t > stamp

\* get_cooldowns, lines 172-177: forced update, marker missing, marker expired or fresh
GcTry_consult ==
    /\ pc = "gc_try"
    /\ Log("read_marker", tsFile.exists)
    /\ pc' = IF ~tsFile.exists THEN "gc_fetch"
             ELSE IF Expired(now, tsFile.timestamp) THEN "gc_patch"
             ELSE "gc_load"
    /\ UNCHANGED <<inputVars, diskVars, gcVars, ocrVars, mainVars, cwd, err, clipboard>>
GcTry ==
    /\ pc = "gc_try"
    /\ IF force_update
       THEN pc' = "gc_fetch" /\ io' = io                      \* AssertionError
       ELSE /\ Log("read_marker", tsFile.exists)
            /\ pc' = IF ~tsFile.exists THEN "gc_fetch"      \* FileNotFoundError
                     ELSE IF Expired(now, tsFile.timestamp) THEN "gc_patch"
                     ELSE "gc_load"
    /\ UNCHANGED <<inputVars, diskVars, gcVars, ocrVars, mainVars, cwd, err, clipboard>>

\* get_cooldowns, lines 178-179: get_latest_patch() and the assert on the stored patch.
\* A failing urlopen raises URLError, an OSError, which line 183 catches.
GcPatch_ungated ==
    /\ pc = "gc_patch"
    /\ \E ok \in BOOLEAN :
          /\ Log("get_manifest", ok)
          /\ patch' = IF ok THEN latest ELSE patch
          /\ pc' = "gc_fetch"
    /\ UNCHANGED <<inputVars, diskVars, data, ocrVars, mainVars, cwd, err, clipboard>>
GcPatch ==
    /\ pc = "gc_patch"
    /\ \E ok \in BOOLEAN :
          /\ Log("get_manifest", ok)
          /\ IF ok
             THEN /\ patch' = latest
                  /\ pc' = IF latest = tsFile.patch THEN "gc_renew" ELSE "gc_fetch"
             ELSE /\ patch' = patch
                  /\ pc' = "gc_fetch"
    /\ UNCHANGED <<inputVars, diskVars, data, ocrVars, mainVars, cwd, err, clipboard>>

\* make_update_timestamp: datetime.now() + timedelta(days=days)
UpdateThreshold_nodelta(t, days) == t
UpdateThreshold(t, days) == t + days

\* make_update_timestamp, lines 134-139: the document written to the marker file
make_update_timestamp(days, p) ==
    [exists |-> TRUE, timestamp |-> UpdateThreshold(now, days), patch |-> p]

\* get_cooldowns, line 180: same patch, only the marker is renewed
GcRenew ==
    /\ pc = "gc_renew"
    /\ tsFile' = make_update_timestamp(DAYS, patch)
    /\ Log("write_marker", TRUE)
    /\ pc' = "gc_load"
    /\ UNCHANGED <<inputVars, cacheFile, gcVars, ocrVars, mainVars, cwd, err, clipboard>>

\* get_cooldowns, line 182: load the locally stored cache
GcLoad ==
    /\ pc = "gc_load"
    /\ Log("read_cache", cacheFile # NoPatch)
    /\ IF cacheFile = NoPatch
       THEN pc' = "gc_fetch" /\ data' = data                  \* FileNotFoundError
       ELSE pc' = "gc_lookup" /\ data' = cacheFile
    /\ UNCHANGED <<inputVars, diskVars, patch, ocrVars, mainVars, cwd, err, clipboard>>

\* get_cooldowns, lines 184-195: download <constant_type>.json.  urlopen itself
\* raises HTTPError (the document does not exist) or URLError (unreachable),
\* before the inner try is entered.
GcFetch_fallback ==
    /\ pc = "gc_fetch"
    /\ \E outcome \in {"ok", "HTTPError", "URLError"} :
          /\ io' = Append(io, IF outcome = "ok" THEN Op("get_dataset", TRUE)
                                ELSE OpFailed("get_dataset", outcome))
          /\ IF outcome = "ok"
             THEN data' = latest /\ pc' = "gc_stamp"
             ELSE data' = cacheFile /\ pc' = "gc_lookup"
    /\ UNCHANGED <<inputVars, diskVars, patch, ocrVars, mainVars, cwd, err, clipboard>>
GcFetch ==
    /\ pc = "gc_fetch"
    /\ \E outcome \in {"ok", "HTTPError", "URLError"} :
          /\ io' = Append(io, IF outcome = "ok" THEN Op("get_dataset", TRUE)
                                ELSE OpFailed("get_dataset", outcome))
          /\ IF outcome = "ok"
             THEN data' = latest /\ pc' = "gc_stamp" /\ err' = err
             ELSE data' = data /\ Raise(outcome)
    /\ UNCHANGED <<inputVars, diskVars, patch, ocrVars, mainVars, cwd, clipboard>>

\* get_cooldowns, lines 196-198: ask for the patch if not known yet, write the marker
GcStamp ==
    /\ pc = "gc_stamp"
    /\ IF patch # NoPatch
       THEN /\ tsFile' = make_update_timestamp(DAYS, patch)
            /\ Log("write_marker", TRUE)
            /\ pc' = "gc_write"
            /\ UNCHANGED <<patch, err>>
       ELSE \E ok \in BOOLEAN :
              IF ok
              THEN /\ patch' = latest
                   /\ tsFile' = make_update_timestamp(DAYS, latest)
                   /\ Log2(Op("get_manifest", TRUE), Op("write_marker", TRUE))
                   /\ pc' = "gc_write"
                   /\ err' = err
              ELSE /\ Log("get_manifest", FALSE)
                   /\ Raise("URLError")
                   /\ UNCHANGED <<patch, tsFile>>
    /\ UNCHANGED <<inputVars, cacheFile, data, ocrVars, mainVars, cwd, clipboard>>

\* get_cooldowns, lines 199-200: write the downloaded document to the cache file
GcWrite ==
    /\ pc = "gc_write"
    /\ cacheFile' = data
    /\ Log("write_cache", TRUE)
    /\ pc' = "gc_lookup"
    /\ UNCHANGED <<inputVars, tsFile, gcVars, ocrVars, mainVars, cwd, err, clipboard>>

\* lines 201-209: data[item_or_ability]["cd"], KeyError unless both keys exist
Lookup_default(doc, id) ==
    IF id \in DOMAIN doc /\ doc[id].hascd
    THEN [found |-> TRUE, cd |-> [scalar |-> doc[id].scalar, cd |-> doc[id].cd]]
    ELSE [found |-> TRUE, cd |-> [scalar |-> TRUE, cd |-> <<0>>]]
Lookup(doc, id) ==
    IF id \in DOMAIN doc /\ doc[id].hascd
    THEN [found |-> TRUE, cd |-> [scalar |-> doc[id].scalar, cd |-> doc[id].cd]]
    ELSE [found |-> FALSE, cd |-> NoCooldown]

\* get_cooldowns, lines 201-209, and the wrapper's return path (lines 105-106)
GcLookup ==
    /\ pc = "gc_lookup"
    /\ LET r == Lookup(DataOf(plural(to_track), data), item_or_ability) IN
         IF r.found
         THEN /\ cooldown' = r.cd
              /\ Log("chdir", TRUE)
              /\ cwd' = "home"
              /\ pc' = "main_cd"
              /\ err' = err
         ELSE /\ Raise("KeyError")
              /\ UNCHANGED <<cooldown, io, cwd>>
    /\ UNCHANGED <<inputVars, diskVars, gcVars, ocrVars, times, timers_sep,
                   sep_prefix, clipboard>>

\* main, lines 280-285: scalar cooldown keeps the arrow, a list selects the pipe
MainCooldown_pipe ==
    /\ pc = "main_cd"
    /\ times' = cooldown.cd
    /\ timers_sep' = PIPE
    /\ pc' = "screenshot"
    /\ UNCHANGED <<inputVars, diskVars, gcVars, ocrVars, cooldown, sep_prefix,
                   cwd, err, io, clipboard>>
MainCooldown ==
    /\ pc = "main_cd"
    /\ times' = cooldown.cd
    /\ timers_sep' = IF cooldown.scalar THEN ARROW ELSE PIPE
    /\ pc' = "screenshot"
    /\ UNCHANGED <<inputVars, diskVars, gcVars, ocrVars, cooldown, sep_prefix,
                   cwd, err, io, clipboard>>

\* ------------------------------------------------------- the OCR retry loop
\* line 290: while next(screenshot_retries) < 5
OuterContinues_limit(v) == v <= SCREENSHOT_LIMIT
OuterContinues(v) == v < SCREENSHOT_LIMIT

\* main, lines 290-292 and 300-301: take another screenshot, or give up
Screenshot ==
    /\ pc = "screenshot"
    /\ screenshot_retries' = screenshot_retries + 1
    /\ IF OuterContinues(screenshot_retries)
       THEN /\ Log("capture", TRUE)
            /\ ocr_retries' = 1
            /\ pc' = "readtext"
            /\ err' = err
       ELSE /\ Raise("ValueError_too_many_retries")
            /\ UNCHANGED <<io, ocr_retries>>
    /\ UNCHANGED <<inputVars, diskVars, gcVars, mainVars, results, timer, cwd, clipboard>>

\* line 296: if next(ocr_retries) > 10: break
InnerGivesUp_range(v) == v >= OCR_LIMIT - 1
InnerGivesUp(v) == v > OCR_LIMIT

\* main, lines 293-299: one reader.readtext call on the current image
ReadText ==
    /\ pc = "readtext"
    /\ \E r \in ReadResults :
          /\ Log("readtext", r # <<>>)
          /\ results' = Append(results, r)
          /\ timer' = r
          /\ IF r # <<>>
             THEN pc' = "parse" /\ ocr_retries' = ocr_retries
             ELSE /\ ocr_retries' = ocr_retries + 1
                  /\ pc' = IF InnerGivesUp(ocr_retries) THEN "screenshot" ELSE "readtext"
    /\ UNCHANGED <<inputVars, diskVars, gcVars, mainVars, screenshot_retries,
                   cwd, err, clipboard>>

\* ------------------------------------------------------------- parsing
HasColon(s) == \E i \in 1..Len(s) : s[i] = COLON

\* lines 303-304: f"{timer[:-2]}:{timer[-2:]}" when there is no colon
Repair_front(s) ==
    IF HasColon(s) THEN s
    ELSE SubSeq(s, 1, IF Len(s) > 2 THEN 2 ELSE Len(s)) \o <<COLON>> \o SubSeq(s, 3, Len(s))
Repair(s) ==
    IF HasColon(s) THEN s
    ELSE SubSeq(s, 1, Len(s) - 2) \o <<COLON>>
           \o SubSeq(s, IF Len(s) > 2 THEN Len(s) - 1 ELSE 1, Len(s))

\* str.split(":")
RECURSIVE Split(_)
Split(s) ==
    IF ~HasColon(s) THEN <<s>>
    ELSE LET i == CHOOSE j \in 1..Len(s) :
                     s[j] = COLON /\ \A k \in 1..(j - 1) : s[k] # COLON
         IN <<SubSeq(s, 1, i - 1)>> \o Split(SubSeq(s, i + 1, Len(s)))

\* int() of a string of digits
RECURSIVE ToInt(_)
ToInt(d) == IF Len(d) = 0 THEN 0
            ELSE 10 * ToInt(SubSeq(d, 1, Len(d) - 1)) + d[Len(d)]

\* line 305: minutes, seconds = map(int, timer.split(":")) succeeds
Parses(s) == LET parts == Split(Repair(s)) IN
               /\ Len(parts) = 2
               /\ \A i \in 1..2 : Len(parts[i]) > 0

\* a timedelta object, held as the tuple of its total seconds (so that timer
\* is a list of tuples before and after line 306), and timedelta.total_seconds()
timedelta(seconds) == <<seconds>>
total_seconds(delta) == delta[1]

\* lines 305-306: timedelta(minutes=minutes, seconds=seconds), in seconds
ParseTimer(s) == LET parts == Split(Repair(s)) IN
                   60 * ToInt(parts[1]) + ToInt(parts[2])

\* line 302: timer = timer[0]
FirstText_last(r) == r[Len(r)]
FirstText(r) == r[1]

\* main, lines 302-306: the recognized text becomes [timedelta]
Parse ==
    /\ pc = "parse"
    /\ LET text == FirstText(timer) IN
         IF Parses(text)
         THEN /\ pc' = "build"
              /\ err' = err
              /\ timer' = <<timedelta(ParseTimer(text))>>
         ELSE /\ Raise("ValueError_parse")
              /\ timer' = timer
    /\ UNCHANGED <<inputVars, diskVars, gcVars, mainVars, screenshot_retries,
                   ocr_retries, results, cwd, io, clipboard>>

\* ------------------------------------------------------ sequence building
RECURSIVE Sum(_)
Sum(q) == IF Len(q) = 0 THEN 0 ELSE Sum(SubSeq(q, 1, Len(q) - 1)) + q[Len(q)]

\* itertools.accumulate
accumulate_plain(q) == q
accumulate(q) == [i \in 1..Len(q) |-> Sum(SubSeq(q, 1, i))]

\* line 310: timer + [timer[0] + delta for delta in times]
anchor_chained(base, deltas) == accumulate(base \o deltas)
anchor(base, deltas) == base \o [i \in 1..Len(deltas) |-> base[1] + deltas[i]]

\* main, lines 307-311: running sums under the arrow, base + delta under the pipe
Build ==
    /\ pc = "build"
    /\ times' = IF timers_sep = ARROW
                THEN accumulate(<<total_seconds(timer[1])>> \o times)
                ELSE anchor(<<total_seconds(timer[1])>>, times)
    /\ pc' = "publish"
    /\ UNCHANGED <<inputVars, diskVars, gcVars, ocrVars, cooldown, timers_sep,
                   sep_prefix, cwd, err, io, clipboard>>

\* str() of a non-negative integer
RECURSIVE Digits(_)
Digits(n) == IF n < 10 THEN <<n>> ELSE Digits(n \div 10) \o <<n % 10>>

\* str.zfill(2)
zfill2_nopad(d) == d
zfill2(d) == IF Len(d) < 2 THEN <<0>> \o d ELSE d

\* timedelta_to_dota_timer, lines 113-117
timedelta_to_dota_timer(delta) ==
    Digits(delta \div 60) \o <<COLON>> \o zfill2(Digits(delta % 60))

Min(a, b) == IF a < b THEN a ELSE b

\* process_timedeltas, lines 120-131: the string as prefix, separator and the
\* joined entries; zip() stops at the shorter of labels and timers
process_timedeltas(arr_of_deltas, prefix, sep, labels) ==
    [prefix |-> prefix,
     sep |-> sep,
     entries |-> IF labels = <<>>
                 THEN [i \in 1..Len(arr_of_deltas) |->
                         [label |-> "", token |-> timedelta_to_dota_timer(arr_of_deltas[i])]]
                 ELSE [i \in 1..Min(Len(labels), Len(arr_of_deltas)) |->
                         [label |-> labels[i],
                          token |-> timedelta_to_dota_timer(arr_of_deltas[i])]]]

\* lines 277 and 280: the display name (translation and "_" -> " " are not modelled)
DisplayName == IF to_track \in {ROSHAN, GLYPH, BUYBACK} THEN to_track ELSE item_or_ability

\* main, lines 312-313: pyperclip.copy(...)
Publish ==
    /\ pc = "publish"
    /\ clipboard' = Append(clipboard,
                           process_timedeltas(times, DisplayName, timers_sep, sep_prefix))
    /\ Log("copy", TRUE)
    /\ pc' = "done"
    /\ UNCHANGED <<inputVars, diskVars, gcVars, ocrVars, mainVars, cwd, err>>

Next ==
    \/ MainSelect
    \/ GcCheck
    \/ GcTry
    \/ GcPatch
    \/ GcRenew
    \/ GcLoad
    \/ GcFetch
    \/ GcStamp
    \/ GcWrite
    \/ GcLookup
    \/ MainCooldown
    \/ Screenshot
    \/ ReadText
    \/ Parse
    \/ Build
    \/ Publish

Spec == Init /\ [][Next]_vars

\* ------------------------------------------------- the retry loop, with fairness
\* The loop of lines 287-301 is entered with fresh counters whatever the kind;
\* the fixed kinds reach it in one step, from an empty cache directory here.  main is straight-line code on one
\* thread: whenever a step is possible it is eventually taken, and every step
\* changes the position or appends to the log.
InitLoop == Init /\ to_track \in {ROSHAN, GLYPH, BUYBACK} /\ tsFile = NoMarker

NextLoop ==
    \/ MainSelect
    \/ Screenshot
    \/ ReadText
    \/ Parse
    \/ Build
    \/ Publish

progress == <<pc, io>>
FairLoop == InitLoop /\ [][NextLoop]_vars /\ WF_progress(NextLoop)

\* ------------------------------------------------ the formatter on its own
\* Any duration of 0..MaxSeconds seconds is formatted as main formats its
\* timers, and the token is read back as main reads the recognized text.
InitFormat ==
    /\ to_track = GLYPH
    /\ item_or_ability = NONE
    /\ force_update = FALSE
    /\ now = 1
    /\ latest = 1
    /\ tsFile = NoMarker
    /\ cacheFile = NoPatch
    /\ tsFile0 = NoMarker
    /\ cacheFile0 = NoPatch
    /\ cwd = "home"
    /\ pc = "format"
    /\ err = NONE
    /\ io = <<>>
    /\ data = NoPatch
    /\ patch = NoPatch
    /\ cooldown = NoCooldown
    /\ times \in {<<d>> : d \in 0..MaxSeconds}
    /\ timers_sep = ARROW
    /\ sep_prefix = <<>>
    /\ screenshot_retries = 1
    /\ ocr_retries = 1
    /\ results = <<>>
    /\ timer = <<>>
    /\ clipboard = <<>>

\* process_timedeltas / timedelta_to_dota_timer, lines 113-131, on one duration
FormatDelta ==
    /\ pc = "format"
    /\ clipboard' = Append(clipboard,
                           process_timedeltas(times, DisplayName, timers_sep, sep_prefix))
    /\ pc' = "formatted"
    /\ UNCHANGED <<inputVars, diskVars, gcVars, ocrVars, mainVars, cwd, err, io>>

\* main, lines 303-306, applied to the token just produced
ParseToken ==
    /\ pc = "formatted"
    /\ LET text == clipboard[1].entries[1].token IN
         IF Parses(text)
         THEN /\ timer' = <<timedelta(ParseTimer(text))>>
              /\ pc' = "parsed"
              /\ err' = err
         ELSE /\ Raise("ValueError_parse")
              /\ timer' = timer
    /\ UNCHANGED <<inputVars, diskVars, gcVars, mainVars, screenshot_retries,
                   ocr_retries, results, cwd, io, clipboard>>

NextFormat ==
    \/ FormatDelta
    \/ ParseToken

SpecFormat == InitFormat /\ [][NextFormat]_vars

\* ------------------------------------- the gzip/pickle revision of the cache
\* _get_cooldowns(constant_type, item_or_ability) of the earlier revision: the
\* marker file holds the update threshold alone, there is no patch and no
\* --force_update.  One call, on any state of the two files.
InitOld ==
    /\ to_track \in {ITEM, ABILITY}
    /\ item_or_ability \in Identifiers
    /\ force_update = FALSE
    /\ now = MaxNow
    /\ latest \in Patches
    /\ tsFile \in {NoMarker} \cup [exists : {TRUE}, timestamp : (MaxNow - 1)..(MaxNow + 1), patch : {NoPatch}]
    /\ cacheFile \in {NoPatch} \cup Patches
    /\ cacheFile <= latest
    /\ tsFile0 = tsFile
    /\ cacheFile0 = cacheFile
    /\ cwd = "home"
    /\ pc = "old_try"
    /\ err = NONE
    /\ io = <<>>
    /\ data = NoPatch
    /\ patch = NoPatch
    /\ cooldown = NoCooldown
    /\ times = <<>>
    /\ timers_sep = ARROW
    /\ sep_prefix = <<>>
    /\ screenshot_retries = 1
    /\ ocr_retries = 1
    /\ results = <<>>
    /\ timer = <<>>
    /\ clipboard = <<>>

\* part_003 line 76 (part_001 line 78): assert datetime.now() > update_threshold
OldAssert(t, threshold) == t > threshold

\* part_003 lines 73-76: read the threshold and assert on it
OldTry ==
    /\ pc = "old_try"
    /\ Log("read_marker", tsFile.exists)
    /\ pc' = IF ~tsFile.exists THEN "old_fetch"                \* FileNotFoundError
             ELSE IF OldAssert(now, tsFile.timestamp) THEN "old_load"
             ELSE "old_fetch"                                  \* AssertionError
    /\ UNCHANGED <<inputVars, diskVars, gcVars, ocrVars, mainVars, cwd, err, clipboard>>

\* part_003 lines 79-80: load the locally stored cache
OldLoad ==
    /\ pc = "old_load"
    /\ Log("read_cache", cacheFile # NoPatch)
    /\ IF cacheFile = NoPatch
       THEN pc' = "old_fetch" /\ data' = data                 \* FileNotFoundError
       ELSE pc' = "old_lookup" /\ data' = cacheFile
    /\ UNCHANGED <<inputVars, diskVars, patch, ocrVars, mainVars, cwd, err, clipboard>>

\* part_003 lines 82-88: json.loads(urlopen(...).read()), inside the handler
OldFetch ==
    /\ pc = "old_fetch"
    /\ \E outcome \in {"ok", "HTTPError", "URLError"} :
          /\ io' = Append(io, IF outcome = "ok" THEN Op("get_dataset", TRUE)
                                ELSE OpFailed("get_dataset", outcome))
          /\ IF outcome = "ok"
             THEN data' = latest /\ pc' = "old_store" /\ err' = err
             ELSE data' = data /\ Raise(outcome)
    /\ UNCHANGED <<inputVars, diskVars, patch, ocrVars, mainVars, cwd, clipboard>>

\* part_003 lines 89-94: the new threshold and the document are written
OldStore ==
    /\ pc = "old_store"
    \* update_threshold = datetime.now() + timedelta(days=2)
    /\ tsFile' = [exists |-> TRUE, timestamp |-> now + 2, patch |-> NoPatch]
    /\ cacheFile' = data
    /\ io' = io \o <<Op("mkdir", TRUE), Op("write_marker", TRUE), Op("write_cache", TRUE)>>
    /\ pc' = "old_lookup"
    /\ UNCHANGED <<inputVars, gcVars, ocrVars, mainVars, cwd, err, clipboard>>

\* part_003 line 95 (part_001 lines 97-105): data[item_or_ability]["cd"]
OldLookup ==
    /\ pc = "old_lookup"
    /\ LET r == Lookup(DataOf(plural(to_track), data), item_or_ability) IN
         IF r.found
         THEN /\ cooldown' = r.cd
              /\ pc' = "old_done"
              /\ err' = err
         ELSE /\ Raise("KeyError")
              /\ cooldown' = cooldown
    /\ UNCHANGED <<inputVars, diskVars, gcVars, ocrVars, times, timers_sep,
                   sep_prefix, cwd, io, clipboard>>

NextOld ==
    \/ OldTry
    \/ OldLoad
    \/ OldFetch
    \/ OldStore
    \/ OldLookup

SpecOld == InitOld /\ [][NextOld]_vars

\* --------------------------------------- two invocations refreshing one cache
\* Two processes run lines 183-200 of get_cooldowns for the same constant_type
\* at the same time (both were started with --force_update); the files are
\* opened and written without any lock.  Here pc, err, now, data and patch are
\* pairs, one component per invocation, and upstream may publish a new patch
\* between any two steps.
Invocations == {1, 2}

InitRace ==
    /\ to_track \in {ITEM, ABILITY}
    /\ item_or_ability = IF to_track = ITEM THEN "black_king_bar"
                         ELSE "faceless_void_chronosphere"
    /\ force_update = TRUE
    /\ now \in {<<MaxNow, MaxNow>>, <<MaxNow - 1, MaxNow>>}
    /\ latest \in Patches
    /\ \/ tsFile = NoMarker /\ cacheFile = NoPatch
       \/ /\ tsFile = [exists |-> TRUE, timestamp |-> MaxNow + 1, patch |-> latest]
          /\ cacheFile = latest
    /\ tsFile0 = tsFile
    /\ cacheFile0 = cacheFile
    /\ cwd = "cache"
    /\ pc = <<"race_fetch", "race_fetch">>
    /\ err = <<NONE, NONE>>
    /\ io = <<>>
    /\ data = <<NoPatch, NoPatch>>
    /\ patch = <<NoPatch, NoPatch>>
    /\ cooldown = NoCooldown
    /\ times = <<>>
    /\ timers_sep = ARROW
    /\ sep_prefix = <<>>
    /\ screenshot_retries = 1
    /\ ocr_retries = 1
    /\ results = <<>>
    /\ timer = <<>>
    /\ clipboard = <<>>

raceFrame == <<to_track, item_or_ability, force_update, now, tsFile0, cacheFile0, cwd,
               cooldown, times, timers_sep, sep_prefix, screenshot_retries,
               ocr_retries, results, timer, clipboard>>

\* the repository behind both URLs moves on: a new patch is published
UpstreamRelease ==
    /\ latest < MaxPatch
    /\ \E p \in Invocations : pc[p] \notin {"race_done", "race_failed"}
    /\ latest' = latest + 1
    /\ UNCHANGED <<raceFrame, diskVars, gcVars, pc, err, io>>

\* lines 184-195 in invocation p: download <constant_type>.json
RaceFetch(p) ==
    /\ pc[p] = "race_fetch"
    /\ \E ok \in BOOLEAN :
          /\ io' = Append(io, IF ok THEN Op("get_dataset", TRUE)
                                ELSE OpFailed("get_dataset", "URLError"))
          /\ IF ok
             THEN /\ data' = [data EXCEPT ![p] = latest]
                  /\ pc' = [pc EXCEPT ![p] = "race_patch"]
                  /\ err' = err
             ELSE /\ data' = data
                  /\ pc' = [pc EXCEPT ![p] = "race_failed"]
                  /\ err' = [err EXCEPT ![p] = "URLError"]
    /\ UNCHANGED <<raceFrame, diskVars, patch, latest>>

\* lines 196-197 in invocation p: patch is None, get_latest_patch()
RacePatch(p) ==
    /\ pc[p] = "race_patch"
    /\ \E ok \in BOOLEAN :
          /\ Log("get_manifest", ok)
          /\ IF ok
             THEN /\ patch' = [patch EXCEPT ![p] = latest]
                  /\ pc' = [pc EXCEPT ![p] = "race_stamp"]
                  /\ err' = err
             ELSE /\ patch' = patch
                  /\ pc' = [pc EXCEPT ![p] = "race_failed"]
                  /\ err' = [err EXCEPT ![p] = "URLError"]
    /\ UNCHANGED <<raceFrame, diskVars, data, latest>>

\* make_update_timestamp as invocation p calls it: its own clock, its own patch
RaceMarker(p) ==
    [exists |-> TRUE, timestamp |-> UpdateThreshold(now[p], DAYS), patch |-> patch[p]]

\* line 198 in invocation p: update_timestamp(patch) writes the marker file
RaceStamp(p) ==
    /\ pc[p] = "race_stamp"
    /\ tsFile' = RaceMarker(p)
    /\ Log("write_marker", TRUE)
    /\ pc' = [pc EXCEPT ![p] = "race_write"]
    /\ UNCHANGED <<raceFrame, cacheFile, gcVars, latest, err>>

\* lines 199-200 in invocation p: json.dump(data, file) into the cache file
RaceWrite(p) ==
    /\ pc[p] = "race_write"
    /\ cacheFile' = data[p]
    /\ Log("write_cache", TRUE)
    /\ pc' = [pc EXCEPT ![p] = "race_done"]
    /\ UNCHANGED <<raceFrame, tsFile, gcVars, latest, err>>

NextRace ==
    \/ UpstreamRelease
    \/ \E p \in Invocations : RaceFetch(p)
    \/ \E p \in Invocations : RacePatch(p)
    \/ \E p \in Invocations : RaceStamp(p)
    \/ \E p \in Invocations : RaceWrite(p)

SpecRace == InitRace /\ [][NextRace]_vars

TypeOK ==
    /\ pc \in {"main", "gc_check", "gc_try", "gc_patch", "gc_renew", "gc_load",
               "gc_fetch", "gc_stamp", "gc_write", "gc_lookup", "main_cd",
               "screenshot", "readtext", "parse", "build", "publish", "done", "failed",
               "format", "formatted", "parsed",
               "old_try", "old_load", "old_fetch", "old_store", "old_lookup", "old_done"}
    /\ (pc = "failed") = (err # NONE)
    /\ cwd \in {"home", "cache"}
    /\ Len(clipboard) <= 1

\* ------------------------------------------------------------ properties
Catalog == to_track \in {ITEM, ABILITY}
InGc == pc \in {"gc_check", "gc_try", "gc_patch", "gc_renew", "gc_load",
                "gc_fetch", "gc_stamp", "gc_write", "gc_lookup"}
\* get_cooldowns was called and has returned or raised
GcOver == Catalog /\ pc # "main" /\ ~InGc
\* get_cooldowns returned a value
GcReturned == GcOver /\ err \notin {"ValueError_missing_argument", "HTTPError",
                                    "URLError", "KeyError"}
AllNetOk == \A i \in 1..Len(io) : io[i].op \in NetOps => io[i].ok
\* readtext calls made on the frame captured by io[i]
CallsOnFrame(i) ==
    Cardinality({j \in (i + 1)..Len(io) :
                    /\ io[j].op = "readtext"
                    /\ \A k \in (i + 1)..(j - 1) : io[k].op # "capture"})
Exhausted == err = "ValueError_too_many_retries"

\* C1: when no readtext call returns text, the run ends in "Too many retries"
\* after exactly 5 screenshots with exactly 10 readtext calls on each (50 calls).
C1_FiveTimesTen ==
    Exhausted =>
        /\ Count("capture") = 5
        /\ \A i \in Idx("capture") : CallsOnFrame(i) = 10
        /\ Count("readtext") = 50

\* C2: no frame is read more than 10 times, so no result comes from an
\* 11th readtext call on one frame.
C2_AtMostTenPerFrame ==
    \A i \in Idx("capture") : CallsOnFrame(i) <= 10

\* C3: for k in 1..10, k-1 empty results followed by a non-empty k-th result on
\* the first frame end the loop successfully with one screenshot and k readtext calls.
C3_FirstFrameSuccess ==
    \A k \in 1..10 :
        ( /\ Len(results) >= k
          /\ results[k] # <<>>
          /\ \A j \in 1..(k - 1) : results[j] = <<>> )
        => /\ Count("capture") = 1
           /\ Count("readtext") = k
           /\ pc \notin {"screenshot", "readtext"}
           /\ ~Exhausted

C3_Witness ==
    /\ Len(results) = 10
    /\ results[10] # <<>>
    /\ pc = "done"

\* C4: a non-empty readtext result is the last screen or OCR call of the run,
\* and the text that is parsed is the first element of that result.
C4_ExitOnFirstText ==
    /\ \A i \in 1..Len(io) :
          io[i] = Op("readtext", TRUE)
          => \A k \in (i + 1)..Len(io) : io[k].op \notin {"capture", "readtext"}
    /\ \A i \in 1..Len(results) :
          results[i] # <<>>
          => /\ i = Len(results)
             /\ pc \notin {"screenshot", "readtext"}
             /\ pc = "parse" => timer = results[i]
             /\ pc \in {"build", "publish", "done"}
                  => timer = <<timedelta(ParseTimer(Head(results[i])))>>

C4_Witness ==
    /\ pc = "done"
    /\ Len(results) > 1
    /\ Len(results[Len(results)]) = 2

\* C5: pyperclip.copy is called at most once, and never in a run that ends
\* with an exception.
C5_PublishOnlyOnSuccess ==
    /\ Count("copy") <= 1
    /\ Len(clipboard) = Count("copy")
    /\ err # NONE => Count("copy") = 0

C5_Witness ==
    /\ err = "ValueError_parse"
    /\ Catalog
    /\ Count("copy") = 0

\* C6: without --force_update, a marker that expires in the future and a
\* readable cache file mean no upstream request and no change to either file.
Fresh0 ==
    /\ Catalog /\ item_or_ability # NONE /\ ~force_update
    /\ tsFile0.exists /\ tsFile0.timestamp > now
    /\ cacheFile0 # NoPatch
C6_FreshCacheNoRequest ==
    Fresh0 => /\ NetCount = 0
              /\ tsFile = tsFile0
              /\ cacheFile = cacheFile0
              /\ Count("write_marker") = 0 /\ Count("write_cache") = 0

C6_Witness ==
    /\ Fresh0
    /\ pc = "main_cd"
    /\ data = cacheFile0

\* C7 as stated: without --force_update, an expired marker always leads to
\* exactly one upstream fetch and to a marker that expires in the future.
Stale0 ==
    /\ Catalog /\ item_or_ability # NONE /\ ~force_update
    /\ tsFile0.exists /\ tsFile0.timestamp < now
C7_ExactlyOneFetch ==
    (Stale0 /\ GcOver /\ AllNetOk)
        => /\ NetCount = 1
           /\ tsFile.exists /\ tsFile.timestamp > now

\* C7 as amended: with an expired marker the patch manifest is requested first
\* and the dataset at most once; when no request fails there is exactly one
\* manifest request, the dataset is fetched exactly when the patch differs from
\* the marker's or the cache file cannot be read, and the marker written
\* expires in the future.
C7_VersionGatedRefresh ==
    Stale0 =>
        /\ Count("get_dataset") <= 1
        /\ \A i \in 1..Len(io) :
              (io[i].op \in NetOps /\ \A k \in 1..(i - 1) : io[k].op \notin NetOps)
              => io[i].op = "get_manifest"
        /\ pc \notin {"main", "gc_check", "gc_try", "gc_patch"} => Count("get_manifest") >= 1
        /\ (GcOver /\ AllNetOk)
              => /\ Count("get_manifest") = 1
                 /\ (Count("get_dataset") = 1)
                      <=> (latest # tsFile0.patch \/ cacheFile0 = NoPatch)
                 /\ tsFile.exists /\ tsFile.timestamp > now

C7_Witness ==
    /\ Stale0
    /\ pc = "main_cd"
    /\ Count("get_manifest") = 1
    /\ Count("get_dataset") = 0
    /\ tsFile.timestamp > now

\* C8: in every state of a run that refreshes the dataset, the marker file and
\* the cache file have either both been rewritten or neither has.
C8_WrittenTogether ==
    Count("get_dataset") > 0
        => ((Count("write_marker") > 0) <=> (Count("write_cache") > 0))

\* C9: an identifier that is missing from the loaded document, or has no "cd"
\* key there, makes get_cooldowns raise KeyError; a value is returned only for
\* an identifier that has a cooldown, and it is that cooldown.
HasCd(id, p) ==
    LET doc == DataOf(plural(to_track), p) IN id \in DOMAIN doc /\ doc[id].hascd
LookupDone == GcOver /\ err \notin {"ValueError_missing_argument", "HTTPError", "URLError"}
C9_MissingIsKeyError ==
    LookupDone =>
        /\ data # NoPatch
        /\ ~HasCd(item_or_ability, data) => (err = "KeyError" /\ cooldown = NoCooldown)
        /\ GcReturned
             => /\ HasCd(item_or_ability, data)
                /\ cooldown.cd = DataOf(plural(to_track), data)[item_or_ability].cd

C9_Witness ==
    /\ err = "KeyError"
    /\ item_or_ability = "aegis"
    /\ to_track = ITEM
    /\ Count("get_dataset") = 1

\* C10: item or ability selected without an identifier: the run ends with the
\* missing-argument ValueError and no upstream request is ever made.
C10_MissingArgumentNoNetwork ==
    (Catalog /\ item_or_ability = NONE)
        => /\ NetCount = 0
           /\ pc \notin {"main", "gc_check"} => err = "ValueError_missing_argument"

C10_Witness ==
    /\ err = "ValueError_missing_argument"
    /\ force_update
    /\ NetCount = 0

\* C11: the missing-argument failure comes before any I/O: when it is raised
\* no filesystem operation and no network request has been made.
C11_MissingArgumentNoIo ==
    err = "ValueError_missing_argument" => io = <<>> /\ cwd = "home"

\* C12: a dataset request that fails ends get_cooldowns with that failure:
\* nothing is looked up in the old cache file, no value is returned, and
\* neither file is written from then on (a marker written before, on line 180,
\* was followed by the failed read of the cache file).
FetchFailedAt(i) == io[i].op = "get_dataset" /\ ~io[i].ok
C12_FailedFetchIsFatal ==
    \A i \in 1..Len(io) :
        FetchFailedAt(i)
        => /\ i = Len(io)
           /\ pc = "failed"
           /\ err \in {"HTTPError", "URLError"}
           /\ cooldown = NoCooldown
           /\ data = NoPatch
           /\ cacheFile = cacheFile0
           /\ Count("write_cache") = 0
           /\ tsFile # tsFile0
                => \E j \in 1..(i - 2) :
                      /\ io[j].op = "write_marker"
                      /\ io[i - 1] = Op("read_cache", FALSE)

C12_Witness ==
    /\ Len(io) > 0
    /\ FetchFailedAt(Len(io))
    /\ force_update
    /\ cacheFile0 # NoPatch
    /\ cacheFile0 # latest
    /\ HasCd(item_or_ability, cacheFile0)

\* C13: a dataset URL that answers with an HTTP error makes get_cooldowns raise
\* the ValueError 'Constant type ... does not exist', not the raw HTTPError.
C13_UnknownFamilyIsValueError ==
    \A i \in 1..Len(io) :
        (io[i].op = "get_dataset" /\ io[i].why = "HTTPError")
        => err = "ValueError_not_supported"

\* C14: a recognized text that does not parse as digits:digits after the colon
\* repair counts as a failed attempt: the loop goes on, no parse error is raised.
Malformed(r) == r # <<>> /\ ~Parses(FirstText(r))
C14_MalformedFeedsBack ==
    /\ err # "ValueError_parse"
    /\ \A i \in 1..Len(results) :
          (Malformed(results[i]) /\ pc # "parse")
          => (pc \in {"screenshot", "readtext"} \/ i < Len(results) \/ Exhausted)

\* the exception class of each raise (lines 161, 192, 204, 301, int() on line 305,
\* urlopen on lines 144 and 184)
ErrClass_generic(e) == "Exception"
ErrClass(e) ==
    CASE e \in {"ValueError_missing_argument", "ValueError_not_supported",
                "ValueError_too_many_retries", "ValueError_parse"} -> "ValueError"
      [] e = "KeyError" -> "KeyError"
      [] e = "HTTPError" -> "HTTPError"
      [] e = "URLError" -> "URLError"
      [] OTHER -> e

\* the stage a failed run stopped in, read off the last external call
LastOp == io[Len(io)]
FailedStage ==
    CASE Catalog /\ item_or_ability = NONE -> "precondition"
      [] LastOp.op \in NetOps /\ ~LastOp.ok -> "fetch"
      [] LastOp.op \in {"read_cache", "write_cache"} -> "notfound"
      [] LastOp.op = "readtext" /\ ~LastOp.ok -> "exhausted"
      [] LastOp.op = "readtext" /\ LastOp.ok -> "parse"
      [] OTHER -> "none"

Offsets == IF Catalog THEN cooldown.cd ELSE KindTimes(to_track)
Built == pc \in {"publish", "done"}
Tokens == [i \in 1..Len(clipboard[1].entries) |-> clipboard[1].entries[i].token]

\* C16: under the arrow separator entry k is the base plus the first k offsets,
\* so the entries never decrease; for roshan they are base, +5, +8 and +11
\* minutes, and 5:00 is published as 5:00, 10:00, 13:00, 16:00.
C16_Accumulate ==
    (Built /\ timers_sep = ARROW)
    => /\ Len(times) = Len(Offsets) + 1
       /\ \A k \in 0..Len(Offsets) : times[k + 1] = total_seconds(timer[1]) + Sum(SubSeq(Offsets, 1, k))
       /\ \A k \in 1..Len(Offsets) : times[k] <= times[k + 1]
       /\ to_track = ROSHAN
            => times = <<total_seconds(timer[1]), total_seconds(timer[1]) + 300, total_seconds(timer[1]) + 480, total_seconds(timer[1]) + 660>>
       /\ (to_track = ROSHAN /\ timer = <<timedelta(300)>> /\ pc = "done")
            => Tokens = << <<5, COLON, 0, 0>>, <<1, 0, COLON, 0, 0>>,
                           <<1, 3, COLON, 0, 0>>, <<1, 6, COLON, 0, 0>> >>

C16_Witness ==
    /\ pc = "done"
    /\ to_track = ROSHAN
    /\ timer = <<timedelta(300)>>

\* C17: under the pipe separator the entries are the base and then base +
\* offset[i], each on its own; 10:00 with offsets 0:30 and 0:45 is published
\* as 10:00, 10:30, 10:45.
C17_Anchor ==
    (Built /\ timers_sep = PIPE)
    => /\ Len(times) = Len(Offsets) + 1
       /\ times[1] = total_seconds(timer[1])
       /\ \A k \in 1..Len(Offsets) : times[k + 1] = total_seconds(timer[1]) + Offsets[k]
       /\ (timer = <<timedelta(600)>> /\ Offsets = <<30, 45>>) => times = <<600, 630, 645>>
       /\ (timer = <<timedelta(600)>> /\ Offsets = <<30, 45>> /\ pc = "done")
            => Tokens = << <<1, 0, COLON, 0, 0>>, <<1, 0, COLON, 3, 0>>,
                           <<1, 0, COLON, 4, 5>> >>

C17_Witness ==
    /\ pc = "done"
    /\ timers_sep = PIPE
    /\ timer = <<timedelta(600)>>
    /\ Offsets = <<30, 45>>

\* C18: a duration of d seconds is formatted as the minutes d \div 60 without
\* padding, a colon and the seconds d % 60 on exactly two digits, and reading
\* the token back as minutes:seconds gives d.
IsDigits(q) == \A i \in 1..Len(q) : q[i] \in 0..9
C18_FormatRoundTrip ==
    pc \in {"formatted", "parsed"}
    => LET d == times[1]
           tok == clipboard[1].entries[1].token
       IN /\ err = NONE
          /\ \E i \in 1..Len(tok) :
                LET m == SubSeq(tok, 1, i - 1)
                    sec == SubSeq(tok, i + 1, Len(tok))
                IN /\ tok[i] = COLON
                   /\ Len(m) >= 1 /\ IsDigits(m) /\ IsDigits(sec)
                   /\ Len(m) > 1 => m[1] # 0
                   /\ ToInt(m) = d \div 60
                   /\ Len(sec) = 2
                   /\ ToInt(sec) = d % 60
          /\ pc = "parsed" => timer = <<timedelta(d)>>

C18_Witness ==
    /\ pc = "parsed"
    /\ times = <<3605>>
    /\ clipboard[1].entries[1].token = <<6, 0, COLON, 0, 5>>

\* C19: the published string has one token per entry of the final sequence,
\* n + 1 for n offsets, in order, none empty, with the separator chosen in
\* main and the display name as prefix; roshan's four labels go one to one.
C19_OneTokenPerEntry ==
    pc = "done"
    => LET out == clipboard[1] IN
         /\ Len(out.entries) = Len(Offsets) + 1
         /\ Len(out.entries) = Len(times)
         /\ \A i \in 1..Len(out.entries) :
               /\ Len(out.entries[i].token) > 0
               /\ Parses(out.entries[i].token)
               /\ ParseTimer(out.entries[i].token) = times[i]
         /\ out.prefix = DisplayName
         /\ out.sep = timers_sep
         /\ IF to_track = ROSHAN
            THEN [i \in 1..Len(out.entries) |-> out.entries[i].label]
                   = <<"kill", "exp", "min", "max">>
            ELSE \A i \in 1..Len(out.entries) : out.entries[i].label = ""

C19_Witness ==
    /\ pc = "done"
    /\ to_track = ROSHAN
    /\ Len(clipboard[1].entries) = 4

\* C20: a recognized text without a colon is read with its last two characters
\* as seconds and the rest as minutes ("530" is 5 minutes 30 seconds); a text
\* with a colon is read as it stands.
Recognized == Head(results[Len(results)])
C20_ColonRepair ==
    pc \in {"build", "publish", "done"}
    => LET text == Recognized
           n == Len(text)
       IN /\ ~HasColon(text)
               => timer = <<timedelta(60 * ToInt(SubSeq(text, 1, n - 2))
                                       + ToInt(SubSeq(text, n - 1, n)))>>
          /\ HasColon(text)
               => \E i \in 1..n :
                     /\ text[i] = COLON
                     /\ timer = <<timedelta(60 * ToInt(SubSeq(text, 1, i - 1))
                                              + ToInt(SubSeq(text, i + 1, n)))>>
          /\ text = <<5, 3, 0>> => timer = <<timedelta(330)>>
          /\ text = <<5, COLON, 3, 0>> => timer = <<timedelta(330)>>

C20_Witness ==
    /\ pc = "done"
    /\ Recognized = <<5, 3, 0>>
    /\ timer = <<timedelta(330)>>

\* C21: the time handed to the builder is non-negative and its seconds group,
\* as recognized, is below 60; a text such as "1:75" is never accepted.
SecondsGroup(text) == ToInt(Split(Repair(text))[2])
C21_RecognizedTimeValid ==
    pc \in {"build", "publish", "done"}
    => /\ total_seconds(timer[1]) >= 0
       /\ SecondsGroup(Recognized) < 60

\* C22: with --force_update neither file is read; the dataset is requested
\* exactly once whatever the marker says, and when the requests succeed both
\* files are replaced (marker: now + 2 days and the latest patch) and the
\* lookup is answered from the downloaded document.
Forced0 == Catalog /\ item_or_ability # NONE /\ force_update
C22_ForcedRefresh ==
    Forced0 =>
        /\ Count("read_marker") = 0
        /\ Count("read_cache") = 0
        /\ Count("get_dataset") <= 1
        /\ pc \notin {"main", "gc_check", "gc_try", "gc_fetch"} => Count("get_dataset") = 1
        /\ (GcOver /\ AllNetOk)
             => /\ tsFile = [exists |-> TRUE, timestamp |-> now + 2, patch |-> latest]
                /\ cacheFile = latest
                /\ data = latest
                /\ Count("write_marker") = 1 /\ Count("write_cache") = 1
        /\ GcReturned
             => cooldown.cd = DataOf(plural(to_track), latest)[item_or_ability].cd

C22_Witness ==
    /\ Forced0
    /\ pc = "main_cd"
    /\ tsFile0.exists /\ tsFile0.timestamp > now
    /\ cacheFile0 # NoPatch /\ cacheFile0 # latest
    /\ cacheFile = latest

\* C23: in the gzip/pickle revision a lookup made before the stored threshold
\* is answered from the cache file with no upstream request, and a lookup made
\* after the threshold downloads the document and stores a threshold two days ahead.
C23_CachedEveryOtherDay ==
    /\ (tsFile0.exists /\ tsFile0.timestamp > now /\ cacheFile0 # NoPatch)
         => NetCount = 0
    /\ (tsFile0.exists /\ tsFile0.timestamp < now /\ AllNetOk
          /\ pc \in {"old_lookup", "old_done"})
         => /\ Count("get_dataset") = 1
            /\ tsFile.timestamp = now + 2

\* C24: marker expired, cache file present, patch manifest obtained.  Same
\* patch as the marker's: one manifest request, no dataset request, the marker
\* rewritten with that patch and now + 2 days, the cache file untouched and
\* used for the answer.  Another patch: the dataset is requested once and, when
\* that succeeds, stored under the new patch.
FirstNetOk ==
    \E i \in 1..Len(io) :
        /\ io[i].op \in NetOps /\ io[i].ok
        /\ \A k \in 1..(i - 1) : io[k].op \notin NetOps
C24_SameVersionKeepsDataset ==
    (Stale0 /\ cacheFile0 # NoPatch /\ GcOver /\ FirstNetOk)
    => /\ Count("get_manifest") = 1
       /\ IF latest = tsFile0.patch
          THEN /\ Count("get_dataset") = 0
               /\ tsFile = [exists |-> TRUE, timestamp |-> now + 2, patch |-> tsFile0.patch]
               /\ cacheFile = cacheFile0
               /\ Count("write_cache") = 0
               /\ data = cacheFile0
               /\ GcReturned
                    => cooldown.cd = DataOf(plural(to_track), cacheFile0)[item_or_ability].cd
          ELSE /\ Count("get_dataset") = 1
               /\ AllNetOk
                    => /\ tsFile = [exists |-> TRUE, timestamp |-> now + 2, patch |-> latest]
                       /\ cacheFile = latest
                       /\ data = latest

C24_Witness ==
    /\ Stale0
    /\ pc = "main_cd"
    /\ latest = tsFile0.patch
    /\ cacheFile0 # NoPatch /\ cacheFile0 # latest
    /\ cacheFile = cacheFile0
    /\ tsFile # tsFile0

\* C25: a patch-manifest request that fails during the freshness check ends
\* get_cooldowns with that failure; no upstream request follows it.
C25_ManifestFailureIsFatal ==
    \A i \in 1..Len(io) :
        ( /\ io[i] = Op("get_manifest", FALSE)
          /\ \A k \in 1..(i - 1) : io[k].op # "get_dataset" )
        => /\ \A k \in (i + 1)..Len(io) : io[k].op \notin NetOps
           /\ GcOver => err = "URLError"

\* C27: every filesystem and network call of get_cooldowns precedes the first
\* screenshot, every screenshot and readtext call precedes the copy, the
\* sequence is built after the last readtext and before the copy; a run that
\* fails in get_cooldowns has made no capture and no readtext call.
GcOps == {"mkdir", "chdir", "read_marker", "read_cache", "write_marker",
          "write_cache"} \cup NetOps
StageRank(op) == IF op \in GcOps THEN 1
                 ELSE IF op \in {"capture", "readtext"} THEN 2
                 ELSE 3
C27_StagesInOrder ==
    \* the log is ordered by stage, so the stage of its last entry bounds them all
    /\ \A i \in 1..(Len(io) - 1) : StageRank(io[i].op) <= StageRank(io[i + 1].op)
    /\ (pc = "main" \/ InGc) => (io = <<>> \/ StageRank(LastOp.op) = 1)
    /\ pc \in {"main_cd", "screenshot", "readtext", "parse", "build"}
         => /\ io = <<>> \/ StageRank(LastOp.op) <= 2
            /\ clipboard = <<>>
            /\ pc # "main_cd" => times = Offsets
    /\ pc = "publish" => /\ StageRank(LastOp.op) = 2
                         /\ clipboard = <<>>
                         /\ Len(times) = Len(Offsets) + 1
    /\ err \in {"ValueError_missing_argument", "HTTPError", "URLError", "KeyError"}
         => StageRank(LastOp.op) = 1

C27_Witness ==
    /\ pc = "done"
    /\ Catalog
    /\ Count("get_dataset") = 1
    /\ Count("capture") = 2

\* C28: once the offsets are selected the separator is the pipe exactly when
\* get_cooldowns returned a list; the built sequence is the running sums under
\* the arrow and base + offset under the pipe; the published separator is the same.
Selected == pc \in {"screenshot", "readtext", "parse", "build", "publish", "done"}
             \/ err \in {"ValueError_too_many_retries", "ValueError_parse"}
ReturnedList ==
    Catalog /\ ~DataOf(plural(to_track), data)[item_or_ability].scalar
C28_SeparatorMatchesComposition ==
    /\ Selected => /\ timers_sep \in {ARROW, PIPE}
                   /\ (timers_sep = PIPE) <=> ReturnedList
    /\ Built => /\ timers_sep = ARROW
                     => times = [k \in 1..(Len(Offsets) + 1) |->
                                    total_seconds(timer[1]) + Sum(SubSeq(Offsets, 1, k - 1))]
                /\ timers_sep = PIPE
                     => times = [k \in 1..(Len(Offsets) + 1) |->
                                    IF k = 1 THEN total_seconds(timer[1]) ELSE total_seconds(timer[1]) + Offsets[k - 1]]
    /\ pc = "done" => clipboard[1].sep = timers_sep

C28_Witness ==
    /\ pc = "done"
    /\ Catalog
    /\ timers_sep = ARROW
    /\ clipboard[1].sep = ARROW
    /\ Len(times) = 2

\* C29: for roshan, glyph and buyback no cache file is read or written, no
\* directory is entered, no upstream request is made, whatever identifier and
\* --force_update were given; the offsets are 5:00 3:00 3:00, 5:00 and 8:00.
C29_FixedKindsSkipCache ==
    ~Catalog =>
        /\ \A i \in 1..Len(io) : io[i].op \in {"capture", "readtext", "copy"}
        /\ NetCount = 0
        /\ tsFile = tsFile0 /\ cacheFile = cacheFile0
        /\ cwd = "home"
        /\ pc \in {"screenshot", "readtext", "parse", "build"}
             => times = CASE to_track = ROSHAN -> <<300, 180, 180>>
                          [] to_track = GLYPH -> <<300>>
                          [] to_track = BUYBACK -> <<480>>

C29_Witness ==
    /\ to_track = BUYBACK
    /\ pc = "done"
    /\ force_update
    /\ item_or_ability = "black_king_bar"
    /\ cacheFile0 = NoPatch

\* C30: when get_cooldowns is over, by return or by exception, the process is
\* back in the directory it was called from.
C30_WorkingDirRestored ==
    GcOver => cwd = "home"

\* C26: whatever readtext returns, the retry loop is left: from every state in
\* the loop the run reaches the parse or the "Too many retries" error, after a
\* bounded number of screenshots and readtext calls.
InLoop == pc \in {"screenshot", "readtext"}
C26_LoopTerminates ==
    /\ [](Count("capture") < SCREENSHOT_LIMIT
            /\ Count("readtext") < SCREENSHOT_LIMIT * (OCR_LIMIT + 1))
    /\ (InLoop ~> (pc = "parse" \/ Exhausted))

C26_Witness ==
    /\ Exhausted
    /\ Count("capture") = 4
    /\ Count("readtext") = 44

\* C31: when two invocations have both refreshed the cache and finished, the
\* marker file and the cache file on disk are the pair one of them wrote: its
\* marker and its dataset, never the marker of one with the dataset of the other.
BothRefreshed == \A p \in Invocations : pc[p] = "race_done"
C31_LastWriterWins ==
    BothRefreshed
    => \E w \in Invocations :
          /\ tsFile = RaceMarker(w)
          /\ cacheFile = data[w]

====
